---- MODULE Spec2Model ----
(***************************************************************************)
(* Pagination and batch control flow of the go_hubspot client:             *)
(* ListEngagements, GetOwners, SearchEngagements (cursor following) and    *)
(* BatchArchiveEngagements, BatchGetAssociations, BatchCreateEngagements,  *)
(* BatchUpdateEngagements (chunked submission).  One call runs at a time;  *)
(* the remote server is the environment and answers every request with any *)
(* response the transport can deliver.                                     *)
(***************************************************************************)
EXTENDS Integers, Sequences, FiniteSets, TLC

VARIABLES
    op,         \* the operation being executed ("none" before the first call)
    pc,         \* "idle" | "loop" (at the head of the operation's loop) | "done"
    config,     \* the caller's config object: Nil or Ptr(record); the callee holds a pointer to it
    entry,      \* the value config had when the current call was entered
    values,     \* url.Values "after" entry of ListEngagements / GetOwners: Nil or Ptr(string)
    after,      \* local `after` of ListEngagements / GetOwners (a string)
    afterPtr,   \* local `after` of SearchEngagements (a *string copied from config.After)
    acc,        \* the accumulator: engagements / owners / associationsV4Set.Results
    index,      \* local `index` of BatchArchiveEngagements; position in the range loop of batch create/update
    ids,        \* local `ids` of BatchGetAssociations (the not yet submitted tail)
    requests,   \* the requests issued by the current call, in order
    responses,  \* the responses received by the current call, in order
    ret         \* what the call returned: [result, err, panic]

vars == <<op, pc, config, entry, values, after, afterPtr, acc, index, ids,
          requests, responses, ret>>

----------------------------------------------------------------------------
(* Bounds of the model *)

\* a paginated call is followed for at most this many requests
MaxRequests == 3
\* id sequences hold at most this many full chunks (plus a partial one)
MaxFullChunks == 2
\* batch create / update inputs hold at most this many items
MaxInputs == 5

----------------------------------------------------------------------------
(* Go values *)

\* a nil pointer / nil slice header, and a pointer to a value
Nil == <<>>
Ptr(x) == <<x>>
Deref(p) == p[1]

Min(a, b) == IF a < b THEN a ELSE b

\* Go's s[lo:hi] on a slice (0-based, hi exclusive)
Slice(s, lo, hi) == SubSeq(s, lo + 1, hi)

\* append(a, b...)
AppendAll(a, b) == a \o b

----------------------------------------------------------------------------
(* The caller's inputs and the server's answers *)

\* next-cursor values a server can send ("" is the empty next-cursor)
Cursors == {"", "c1", "c2"}

\* the records one response can carry, in the order the server returns them
ResultPages == {<<>>, <<"r1">>, <<"r2", "r1">>}

\* the *errortools.Error a failed request returns
TransportError == Ptr("transport error")

\* a config object: only the fields the control flow reads
Config(a, i, n) == [After |-> a, Ids |-> i, Inputs |-> n]

\* *string values of config.After
AfterValues == {Nil} \cup {Ptr(c) : c \in Cursors}

\* configs of ListEngagements / GetOwners (a nil config included)
ListConfigs == {Nil} \cup {Ptr(Config(a, <<>>, <<>>)) : a \in AfterValues}

\* EngagementsResponse / OwnersResponse as decoded by one httpRequest, with its error
Paging(c) == [Next |-> [After |-> c]]
ListResponses ==
    {[e |-> TransportError, Results |-> <<>>, Paging |-> Nil]}
    \cup [e : {Nil}, Results : ResultPages,
          Paging : {Nil} \cup {Ptr(Paging(c)) : c \in Cursors}]

\* the value of ret while a call is running
NoRet == [result |-> Nil, err |-> Nil, panic |-> FALSE]
Return(r, e) == [result |-> r, err |-> e, panic |-> FALSE]
Panic == [result |-> Nil, err |-> Nil, panic |-> TRUE]

\* the call modelled is made once, from the initial state
CanCall == pc = "idle"

----------------------------------------------------------------------------
(* ListEngagements / GetOwners *)

\* `after := ""; if config != nil { if config.After != nil { after = *config.After } }`
StartAfter(cfg) ==
    IF cfg # Nil /\ Deref(cfg).After # Nil THEN Deref(Deref(cfg).After) ELSE ""

\* `if after != "" { values.Set("after", after) }`
SetAfter(vals, a) == IF a # "" THEN Ptr(a) ELSE vals

\* a variant that takes an explicit empty cursor for no cursor
ExplicitAfter_NonEmpty(cfg) ==
    cfg # Nil /\ Deref(cfg).After # Nil /\ Deref(Deref(cfg).After) # ""

\* `if config != nil { if config.After != nil { break } }`
ExplicitAfter(cfg) == cfg # Nil /\ Deref(cfg).After # Nil

\* a variant without the empty next-cursor test
LastPage_NilOnly(resp) == resp.Paging = Nil

\* `if resp.Paging == nil { break }; if resp.Paging.Next.After == "" { break }`
LastPage(resp) ==
    \/ resp.Paging = Nil
    \/ Deref(resp.Paging).Next.After = ""

\* a variant that returns the records collected so far with the error
PageError_Partial(collected, e) == Return(Ptr(collected), e)

\* `if e != nil { return nil, e }`: the records collected so far are dropped
PageError(collected, e) == Return(Nil, e)

\* `engagements = append(engagements, engagementsResponse.Results...)`
PageAppend(collected, resp) == AppendAll(collected, resp.Results)

\* one iteration of the `for` loop: request, error check, append, stop tests
PageLoop(resp) ==
    LET vals == SetAfter(values, after) IN
    /\ values' = vals
    /\ requests' = Append(requests, [after |-> vals])
    /\ responses' = Append(responses, resp)
    /\ IF resp.e # Nil
         THEN /\ ret' = PageError(acc, resp.e)
              /\ pc' = "done"
              /\ UNCHANGED <<acc, after>>
         ELSE /\ acc' = PageAppend(acc, resp)
              /\ IF ExplicitAfter(config) \/ LastPage(resp)
                   THEN /\ ret' = Return(Ptr(acc'), Nil)
                        /\ pc' = "done"
                        /\ UNCHANGED after
                   ELSE /\ after' = Deref(resp.Paging).Next.After
                        /\ pc' = "loop"
                        /\ UNCHANGED ret
    /\ (pc' = "done" \/ Len(requests') < MaxRequests)
    /\ UNCHANGED <<op, config, entry, afterPtr, index, ids>>

\* ListEngagements up to its loop; line 55 reads config.Type before the nil test
ListEngagementsBegin ==
    /\ CanCall
    /\ \E cfg \in ListConfigs :
        /\ op' = "ListEngagements"
        /\ config' = cfg /\ entry' = cfg
        /\ IF cfg = Nil
             THEN pc' = "done" /\ ret' = Panic /\ after' = ""
             ELSE pc' = "loop" /\ ret' = NoRet /\ after' = StartAfter(cfg)
        /\ values' = Nil /\ acc' = <<>> /\ requests' = <<>> /\ responses' = <<>>
        /\ afterPtr' = Nil /\ index' = 0 /\ ids' = <<>>

ListEngagementsLoop ==
    /\ op = "ListEngagements" /\ pc = "loop"
    /\ \E resp \in ListResponses : PageLoop(resp)

\* GetOwners up to its loop; a nil config is accepted
GetOwnersBegin ==
    /\ CanCall
    /\ \E cfg \in ListConfigs :
        /\ op' = "GetOwners"
        /\ config' = cfg /\ entry' = cfg
        /\ pc' = "loop" /\ ret' = NoRet /\ after' = StartAfter(cfg)
        /\ values' = Nil /\ acc' = <<>> /\ requests' = <<>> /\ responses' = <<>>
        /\ afterPtr' = Nil /\ index' = 0 /\ ids' = <<>>

GetOwnersLoop ==
    /\ op = "GetOwners" /\ pc = "loop"
    /\ \E resp \in ListResponses : PageLoop(resp)

----------------------------------------------------------------------------
(* SearchEngagements *)

\* configs of SearchEngagements (a nil config included)
SearchConfigs == {Nil} \cup {Ptr(Config(a, <<>>, <<>>)) : a \in AfterValues}

\* the POST body is the config itself: the cursor sent is config.After
SearchRequest(cfg) == [after |-> Deref(cfg).After]

\* `config.After = &engagementsResponse.Paging.Next.After`
StoreAfter(cfg, resp) ==
    Ptr([Deref(cfg) EXCEPT !.After = Ptr(Deref(resp.Paging).Next.After)])

\* SearchEngagements up to its loop: the nil test, then one request whose
\* response is only checked for an error, then `after := config.After`
SearchEngagementsBegin ==
    /\ CanCall
    /\ \E cfg \in SearchConfigs :
        /\ op' = "SearchEngagements"
        /\ config' = cfg /\ entry' = cfg
        /\ IF cfg = Nil
             THEN /\ pc' = "done"
                  /\ ret' = Return(Nil, Ptr("Config is nil"))
                  /\ requests' = <<>> /\ responses' = <<>>
                  /\ afterPtr' = Nil
             ELSE \E resp \in ListResponses :
                  /\ requests' = <<SearchRequest(cfg)>>
                  /\ responses' = <<resp>>
                  /\ IF resp.e # Nil
                       THEN /\ pc' = "done"
                            /\ ret' = PageError(<<>>, resp.e)
                            /\ afterPtr' = Nil
                       ELSE /\ pc' = "loop"
                            /\ ret' = NoRet
                            /\ afterPtr' = Deref(cfg).After
        /\ values' = Nil /\ after' = "" /\ acc' = <<>>
        /\ index' = 0 /\ ids' = <<>>

\* one iteration of the `for` loop of SearchEngagements
SearchEngagementsLoop ==
    /\ op = "SearchEngagements" /\ pc = "loop"
    /\ \E resp \in ListResponses :
        /\ requests' = Append(requests, SearchRequest(config))
        /\ responses' = Append(responses, resp)
        /\ IF resp.e # Nil
             THEN /\ ret' = PageError(acc, resp.e)
                  /\ pc' = "done"
                  /\ UNCHANGED <<acc, config>>
             ELSE /\ acc' = PageAppend(acc, resp)
                  /\ IF afterPtr # Nil \/ LastPage(resp)
                       THEN /\ ret' = Return(Ptr(acc'), Nil)
                            /\ pc' = "done"
                            /\ UNCHANGED config
                       ELSE /\ config' = StoreAfter(config, resp)
                            /\ pc' = "loop"
                            /\ UNCHANGED ret
        /\ (pc' = "done" \/ Len(requests') < MaxRequests)
    /\ UNCHANGED <<op, entry, values, after, afterPtr, index, ids>>

----------------------------------------------------------------------------
(* Batch operations: inputs and answers *)

\* `var maxItemsPerBatch = 100` of BatchArchiveEngagements
maxItemsPerBatch == 100

\* `const maxBatchSize int = 10000` of the association lookup
maxBatchSize == 10000

\* the chunk size service.batches cuts config.Inputs into
defaultBatchSize == 2

\* n distinct ids, in order
Ids(n) == [i \in 1..n |-> i]

\* input lengths around the chunk boundaries for a maximum chunk size
IdCounts(max) ==
    {k * max + d : k \in 0..MaxFullChunks, d \in {0, 1, max \div 2, max - 1}}

\* what one httpRequest of a batch operation returns: the *http.Response (nil or
\* with a status code), the error, and the results decoded into the response model
BatchResponses ==
    {r \in [response : {Nil} \cup {Ptr([StatusCode |-> c]) : c \in {200, 207, 500}},
            e : {Nil, TransportError},
            Results : ResultPages] :
        r.response = Nil => r.e # Nil}

\* batchArchiveEngagements passes no response model: nothing is decoded
ArchiveResponses == {r \in BatchResponses : r.Results = <<>>}

\* BatchGetAssociations never reads the *http.Response, and reads the decoded
\* results only when the error is nil: one failure status stands for them all
AssociationResponses ==
    {r \in BatchResponses :
        /\ r.response # Nil => Deref(r.response).StatusCode \in {200, 207}
        /\ r.e # Nil => r.Results = <<>>}

\* a variant that returns what was aggregated so far with the error
BatchError_Partial(aggregated, e) == Return(Ptr(aggregated), e)

\* `if e != nil { return nil, e }` of a batch loop: nothing aggregated is returned
BatchError(aggregated, e) == Return(Nil, e)

\* a variant that assigns instead of appending
BatchAppend_Overwrite(aggregated, resp) == resp.Results

\* `associationsV4Set.Results = append(associationsV4Set.Results, associationsV4Set_.Results...)`,
\* `engagements = append(engagements, r.Results...)`
BatchAppend(aggregated, resp) == AppendAll(aggregated, resp.Results)

----------------------------------------------------------------------------
(* BatchArchiveEngagements *)

\* a variant that always submits the whole remainder
ArchiveChunk_NoCap(engagementIds, idx) ==
    Slice(engagementIds, idx, Len(engagementIds))

\* the slice handed to batchArchiveEngagements for the current index
ArchiveChunk(engagementIds, idx) ==
    IF Len(engagementIds) > idx + maxItemsPerBatch
      THEN Slice(engagementIds, idx, idx + maxItemsPerBatch)
      ELSE Slice(engagementIds, idx, Len(engagementIds))

\* batchArchiveEngagements: body.Inputs holds one {id} per engagement id, in order
ArchiveBody(engagementIds) ==
    [inputs |-> [i \in 1..Len(engagementIds) |-> engagementIds[i]]]

\* `for len(engagementIds) > index`
ArchiveMore(engagementIds, idx) == Len(engagementIds) > idx

BatchArchiveEngagementsBegin ==
    /\ CanCall
    /\ \E n \in IdCounts(maxItemsPerBatch) :
        LET cfg == Ptr(Config(Nil, Ids(n), <<>>)) IN
        /\ op' = "BatchArchiveEngagements"
        /\ config' = cfg /\ entry' = cfg
        /\ index' = 0
        /\ IF ArchiveMore(Ids(n), 0)
             THEN pc' = "loop" /\ ret' = NoRet
             ELSE pc' = "done" /\ ret' = Return(Nil, Nil)
        /\ values' = Nil /\ after' = "" /\ afterPtr' = Nil /\ acc' = <<>>
        /\ ids' = <<>> /\ requests' = <<>> /\ responses' = <<>>

\* one iteration of the `for` loop of BatchArchiveEngagements
BatchArchiveEngagementsLoop ==
    /\ op = "BatchArchiveEngagements" /\ pc = "loop"
    /\ \E resp \in ArchiveResponses :
        LET engagementIds == Deref(config).Ids IN
        /\ requests' = Append(requests, ArchiveBody(ArchiveChunk(engagementIds, index)))
        /\ responses' = Append(responses, resp)
        /\ IF resp.e # Nil
             THEN /\ ret' = BatchError(<<>>, resp.e)
                  /\ pc' = "done"
                  /\ UNCHANGED index
             ELSE /\ index' = index + maxItemsPerBatch
                  /\ IF ArchiveMore(engagementIds, index')
                       THEN pc' = "loop" /\ UNCHANGED ret
                       ELSE pc' = "done" /\ ret' = Return(Nil, Nil)
    /\ UNCHANGED <<op, config, entry, values, after, afterPtr, acc, ids>>

----------------------------------------------------------------------------
(* BatchGetAssociations *)

\* a variant without the early return
NoIds_Never(cfg) == FALSE

\* `if len(config.Ids) == 0 { return nil, nil }`
NoIds(cfg) == Len(Deref(cfg).Ids) = 0

\* the `for i, id := range ids` loop that stops at i == maxBatchSize
AssociationInputs(s) == [inputs |-> Slice(s, 0, Min(Len(s), maxBatchSize))]

\* `if len(ids) > maxBatchSize { ids = ids[maxBatchSize:] } else { break }`
AssociationsMore(s) == Len(s) > maxBatchSize
AssociationsRest(s) == Slice(s, maxBatchSize, Len(s))

BatchGetAssociationsBegin ==
    /\ CanCall
    /\ \E n \in IdCounts(maxBatchSize) :
        LET cfg == Ptr(Config(Nil, Ids(n), <<>>)) IN
        /\ op' = "BatchGetAssociations"
        /\ config' = cfg /\ entry' = cfg
        /\ IF NoIds(cfg)
             THEN pc' = "done" /\ ret' = Return(Nil, Nil) /\ ids' = <<>>
             ELSE /\ ids' = Deref(cfg).Ids
                  /\ IF Len(ids') > 0
                       THEN pc' = "loop" /\ ret' = NoRet
                       ELSE pc' = "done" /\ ret' = Return(Ptr([Results |-> <<>>]), Nil)
        /\ values' = Nil /\ after' = "" /\ afterPtr' = Nil /\ acc' = <<>>
        /\ index' = 0 /\ requests' = <<>> /\ responses' = <<>>

\* one iteration of the `for len(ids) > 0` loop of BatchGetAssociations
BatchGetAssociationsLoop ==
    /\ op = "BatchGetAssociations" /\ pc = "loop"
    /\ \E resp \in AssociationResponses :
        /\ requests' = Append(requests, AssociationInputs(ids))
        /\ responses' = Append(responses, resp)
        /\ IF resp.e # Nil
             THEN /\ ret' = BatchError(acc, resp.e)
                  /\ pc' = "done"
                  /\ UNCHANGED <<acc, ids>>
             ELSE /\ acc' = BatchAppend(acc, resp)
                  /\ ids' = IF AssociationsMore(ids) THEN AssociationsRest(ids) ELSE ids
                  /\ IF AssociationsMore(ids) /\ Len(ids') > 0
                       THEN pc' = "loop" /\ UNCHANGED ret
                       ELSE pc' = "done" /\ ret' = Return(Ptr([Results |-> acc']), Nil)
    /\ UNCHANGED <<op, config, entry, values, after, afterPtr, index>>

----------------------------------------------------------------------------
(* BatchCreateEngagements / BatchUpdateEngagements *)

\* service.batches(n): contiguous index ranges of at most defaultBatchSize items
batches(n) ==
    [k \in 1..((n + defaultBatchSize - 1) \div defaultBatchSize) |->
        [startIndex |-> (k - 1) * defaultBatchSize,
         endIndex |-> Min(k * defaultBatchSize, n)]]

\* configs of batch create / update: config.Inputs of every length up to MaxInputs
BatchObjectsConfigs == {Ptr(Config(Nil, <<>>, Ids(n))) : n \in 0..MaxInputs}

\* `BatchObjectsConfig{Inputs: config.Inputs[batch.startIndex:batch.endIndex]}`
BatchBody(cfg, batch) ==
    [inputs |-> Slice(Deref(cfg).Inputs, batch.startIndex, batch.endIndex)]

\* `if response != nil { if response.StatusCode == http.StatusMultiStatus { goto ok } }`
MultiStatus(resp) ==
    resp.response # Nil /\ Deref(resp.response).StatusCode = 207

\* a variant that tests the error before the status code
BatchAbort_ErrorFirst(resp) == resp.e # Nil

\* `if e != nil { return nil, e }`, reached unless the jump to ok was taken
BatchAbort(resp) == ~MultiStatus(resp) /\ resp.e # Nil

\* one iteration of the range loop over service.batches(len(config.Inputs))
BatchLoop(resp) ==
    LET list == batches(Len(Deref(config).Inputs))
        batch == list[index + 1]
    IN
    /\ requests' = Append(requests, BatchBody(config, batch))
    /\ responses' = Append(responses, resp)
    /\ IF BatchAbort(resp)
         THEN /\ ret' = BatchError(acc, resp.e)
              /\ pc' = "done"
              /\ UNCHANGED <<acc, index>>
         ELSE /\ acc' = BatchAppend(acc, resp)
              /\ index' = index + 1
              /\ IF index' < Len(list)
                   THEN pc' = "loop" /\ UNCHANGED ret
                   ELSE pc' = "done" /\ ret' = Return(Ptr(acc'), Nil)
    /\ UNCHANGED <<op, config, entry, values, after, afterPtr, ids>>

BatchCreateEngagementsBegin ==
    /\ CanCall
    /\ \E cfg \in BatchObjectsConfigs :
        /\ op' = "BatchCreateEngagements"
        /\ config' = cfg /\ entry' = cfg
        /\ index' = 0
        /\ IF Len(batches(Len(Deref(cfg).Inputs))) > 0
             THEN pc' = "loop" /\ ret' = NoRet
             ELSE pc' = "done" /\ ret' = Return(Ptr(<<>>), Nil)
        /\ values' = Nil /\ after' = "" /\ afterPtr' = Nil /\ acc' = <<>>
        /\ ids' = <<>> /\ requests' = <<>> /\ responses' = <<>>

BatchCreateEngagementsLoop ==
    /\ op = "BatchCreateEngagements" /\ pc = "loop"
    /\ \E resp \in BatchResponses : BatchLoop(resp)

BatchUpdateEngagementsBegin ==
    /\ CanCall
    /\ \E cfg \in BatchObjectsConfigs :
        /\ op' = "BatchUpdateEngagements"
        /\ config' = cfg /\ entry' = cfg
        /\ index' = 0
        /\ IF Len(batches(Len(Deref(cfg).Inputs))) > 0
             THEN pc' = "loop" /\ ret' = NoRet
             ELSE pc' = "done" /\ ret' = Return(Ptr(<<>>), Nil)
        /\ values' = Nil /\ after' = "" /\ afterPtr' = Nil /\ acc' = <<>>
        /\ ids' = <<>> /\ requests' = <<>> /\ responses' = <<>>

BatchUpdateEngagementsLoop ==
    /\ op = "BatchUpdateEngagements" /\ pc = "loop"
    /\ \E resp \in BatchResponses : BatchLoop(resp)

----------------------------------------------------------------------------
(* UpdateEngagement *)

\* property names and values a caller can supply ("" is an empty value)
PropertyKeys == {"k1", "k2"}
PropertyValues == {"", "v"}

\* map[string]string values over the property names
PropertyMaps == UNION {[K -> PropertyValues] : K \in SUBSET PropertyKeys}

\* configs of UpdateEngagement: Properties is a nil map or a map
UpdateEngagementConfigs ==
    {[After |-> Nil, Ids |-> <<>>, Inputs |-> <<>>, Properties |-> p] :
        p \in {Nil} \cup {Ptr(m) : m \in PropertyMaps}}

\* `make(map[string]string)`
EmptyMap == [k \in {} |-> ""]

\* a variant that leaves out properties whose value is empty
Put_SkipEmpty(m, key, value) ==
    IF value = "" THEN m
    ELSE [k \in DOMAIN m \cup {key} |-> IF k = key THEN value ELSE m[k]]

\* `properties[key] = value`
Put(m, key, value) ==
    [k \in DOMAIN m \cup {key} |-> IF k = key THEN value ELSE m[k]]

\* `for key, value := range config.Properties { properties[key] = value }`
RECURSIVE CopyInto(_, _, _)
CopyInto(dst, src, keys) ==
    IF keys = {} THEN dst
    ELSE LET key == CHOOSE k \in keys : TRUE
         IN CopyInto(Put(dst, key, src[key]), src, keys \ {key})

\* the `properties` map built from config.Properties (empty for a nil map)
UpdateProperties(cfg) ==
    IF cfg.Properties # Nil
      THEN CopyInto(EmptyMap, Deref(cfg.Properties), DOMAIN Deref(cfg.Properties))
      ELSE EmptyMap

\* the body model `properties_`: a struct with the one field "properties"
UpdateBody(cfg) == [properties |-> UpdateProperties(cfg)]

\* what the PATCH request returns: an error, or the updated engagement
UpdateResponses ==
    {[e |-> TransportError, engagement |-> "none"],
     [e |-> Nil, engagement |-> "updated"]}

\* UpdateEngagement: build the payload, send it, return the engagement or the error
UpdateEngagement ==
    /\ CanCall
    /\ \E cfg \in UpdateEngagementConfigs, resp \in UpdateResponses :
        /\ op' = "UpdateEngagement"
        /\ config' = Ptr(cfg) /\ entry' = Ptr(cfg)
        /\ requests' = <<UpdateBody(cfg)>>
        /\ responses' = <<resp>>
        /\ ret' = IF resp.e # Nil THEN Return(Nil, resp.e)
                  ELSE Return(Ptr(resp.engagement), Nil)
        /\ pc' = "done"
        /\ values' = Nil /\ after' = "" /\ afterPtr' = Nil /\ acc' = <<>>
        /\ index' = 0 /\ ids' = <<>>

----------------------------------------------------------------------------
Init ==
    /\ op = "none" /\ pc = "idle"
    /\ config = Nil /\ entry = Nil
    /\ values = Nil /\ after = "" /\ afterPtr = Nil
    /\ acc = <<>> /\ index = 0 /\ ids = <<>>
    /\ requests = <<>> /\ responses = <<>>
    /\ ret = NoRet

Next ==
    \/ ListEngagementsBegin
    \/ ListEngagementsLoop
    \/ GetOwnersBegin
    \/ GetOwnersLoop
    \/ SearchEngagementsBegin
    \/ SearchEngagementsLoop
    \/ BatchArchiveEngagementsBegin
    \/ BatchArchiveEngagementsLoop
    \/ BatchGetAssociationsBegin
    \/ BatchGetAssociationsLoop
    \/ BatchCreateEngagementsBegin
    \/ BatchCreateEngagementsLoop
    \/ BatchUpdateEngagementsBegin
    \/ BatchUpdateEngagementsLoop
    \/ UpdateEngagement

Spec == Init /\ [][Next]_vars

----------------------------------------------------------------------------
(* What the properties speak about *)

ListOps == {"ListEngagements", "GetOwners"}
PagingOps == ListOps \cup {"SearchEngagements"}
ChunkOps == {"BatchArchiveEngagements", "BatchGetAssociations"}
MutationOps == {"BatchCreateEngagements", "BatchUpdateEngagements"}

\* the records of a sequence of responses, concatenated in order
RECURSIVE ConcatResults(_)
ConcatResults(rs) ==
    IF rs = <<>> THEN <<>> ELSE ConcatResults(SubSeq(rs, 1, Len(rs) - 1)) \o rs[Len(rs)].Results

\* the items of a sequence of batch requests, concatenated in order
RECURSIVE ConcatInputs(_)
ConcatInputs(rq) ==
    IF rq = <<>> THEN <<>> ELSE ConcatInputs(SubSeq(rq, 1, Len(rq) - 1)) \o rq[Len(rq)].inputs

\* the response carries no paging block, or an empty next-cursor
NoNextCursor(r) == r.Paging = Nil \/ r.Paging = Ptr(Paging(""))

\* the request failed: the transport returned an error
Failed(r) == r.e # Nil

\* the response has HTTP status 207
Is207(r) == r.response = Ptr([StatusCode |-> 207])

AllSucceeded == \A i \in 1..Len(responses) : ~Failed(responses[i])

\* the call was entered with a config whose After is nil / non-nil
CalledWithoutCursor == entry # Nil /\ Deref(entry).After = Nil
CalledWithCursor == entry # Nil /\ Deref(entry).After # Nil

\* the maximum chunk size of the running chunked operation
ChunkMax == IF op = "BatchArchiveEngagements" THEN 100 ELSE 10000

\* the id sequence the call was given
InputIds == Deref(entry).Ids

----------------------------------------------------------------------------
(* C1: ListEngagements and GetOwners called without an explicit cursor, every
   request succeeding: no request follows a response without a next-cursor
   (absent paging block or empty next-cursor), the call returns only after such
   a response, and it returns the records of all pages received, concatenated
   in request order. *)
C1_PagesToExhaustion ==
    (op \in ListOps /\ CalledWithoutCursor /\ AllSucceeded) =>
        /\ Len(requests) = Len(responses)
        /\ \A i \in 1..Len(responses) :
              NoNextCursor(responses[i]) => (i = Len(responses) /\ pc = "done")
        /\ pc = "done" =>
              /\ Len(responses) >= 1
              /\ NoNextCursor(responses[Len(responses)])
              /\ ret = Return(Ptr(ConcatResults(responses)), Nil)

\* ListEngagements returned three pages' records after an empty next-cursor
C1_Witness ==
    /\ op = "ListEngagements" /\ pc = "done" /\ CalledWithoutCursor /\ AllSucceeded
    /\ Len(responses) = 3
    /\ responses[3].Paging = Ptr(Paging(""))
    /\ responses[1].Results = <<"r2", "r1">> /\ responses[2].Results = <<"r1">>
    /\ ret.result = Ptr(<<"r2", "r1", "r1">> \o responses[3].Results)

(* C2: ListEngagements and GetOwners called with an explicit cursor issue
   exactly one request, and when it succeeds return exactly that page, whether
   or not the response carries a non-empty next-cursor. *)
C2_ExplicitCursorOnePage ==
    (op \in ListOps /\ CalledWithCursor) =>
        /\ Len(requests) <= 1
        /\ pc = "done" =>
              /\ Len(requests) = 1
              /\ ~Failed(responses[1]) => ret = Return(Ptr(responses[1].Results), Nil)

\* GetOwners stopped after one page although the server announced a next page
C2_Witness ==
    /\ op = "GetOwners" /\ pc = "done" /\ CalledWithCursor
    /\ Len(requests) = 1 /\ ~Failed(responses[1])
    /\ responses[1].Paging = Ptr(Paging("c2"))
    /\ ret.result = Ptr(<<"r2", "r1">>)

(* C3: BatchArchiveEngagements (max 100) and BatchGetAssociations (max 10000)
   submit contiguous chunks in input order: the chunks submitted so far
   concatenate to a prefix of the input, none is empty or larger than the
   maximum, every chunk before the last submitted one has exactly the maximum
   size, and when every request succeeded and the call has returned the chunks
   concatenate to the whole input in ceil(n/max) requests. *)
C3_Chunking ==
    op \in ChunkOps =>
        LET n == Len(InputIds)
            sent == ConcatInputs(requests)
        IN
        /\ sent = SubSeq(InputIds, 1, Len(sent))
        /\ \A i \in 1..Len(requests) :
              /\ Len(requests[i].inputs) >= 1
              /\ Len(requests[i].inputs) <= ChunkMax
              /\ i < Len(requests) => Len(requests[i].inputs) = ChunkMax
        /\ (pc = "done" /\ AllSucceeded) =>
              /\ sent = InputIds
              /\ Len(requests) = (n + ChunkMax - 1) \div ChunkMax
              /\ \A i \in 1..Len(requests) :
                    i < Len(requests) => Len(requests[i].inputs) = ChunkMax

\* 250 ids were archived in three requests of 100, 100 and 50 ids
C3_Witness ==
    /\ op = "BatchArchiveEngagements" /\ pc = "done" /\ AllSucceeded
    /\ Len(InputIds) = 250
    /\ Len(requests) = 3
    /\ Len(requests[1].inputs) = 100
    /\ Len(requests[2].inputs) = 100
    /\ Len(requests[3].inputs) = 50

(* C4: in BatchCreateEngagements and BatchUpdateEngagements a chunk answered
   with status 207, with or without a transport error, is not what makes the
   call return an error; its results are in the aggregate, and after it the call
   either continues with the next chunk or has submitted all inputs. *)
C4_MultiStatusContinues ==
    op \in MutationOps =>
        \A i \in 1..Len(responses) :
            Is207(responses[i]) =>
                /\ ~(i = Len(responses) /\ pc = "done" /\ ret.err # Nil)
                /\ i = Len(responses) => acc = ConcatResults(responses)
                /\ (i = Len(responses) /\ pc = "done") =>
                      /\ ConcatInputs(requests) = Deref(entry).Inputs
                      /\ ret = Return(Ptr(ConcatResults(responses)), Nil)

\* a create call whose first chunk was a 207 with an error went on to a second chunk
C4_Witness ==
    /\ op = "BatchCreateEngagements" /\ pc = "done"
    /\ Len(responses) = 2
    /\ Is207(responses[1]) /\ Failed(responses[1])
    /\ responses[1].Results = <<"r1">>
    /\ ~Failed(responses[2]) /\ responses[2].Results = <<"r2", "r1">>
    /\ ret = Return(Ptr(<<"r1", "r2", "r1">>), Nil)

(* C5: in the four batch operations a chunk whose request returns an error
   and whose response is not a 207 is the last chunk submitted, and the call
   returns that error with a nil result. *)
C5_BatchErrorAborts ==
    op \in MutationOps \cup ChunkOps =>
        \A i \in 1..Len(responses) :
            (Failed(responses[i]) /\ ~Is207(responses[i])) =>
                /\ i = Len(responses)
                /\ Len(requests) = i
                /\ pc = "done"
                /\ ret = Return(Nil, responses[i].e)

\* an update of five inputs failed on the second chunk after a first chunk with results
C5_Witness ==
    /\ op = "BatchUpdateEngagements" /\ pc = "done"
    /\ Len(Deref(entry).Inputs) = 5
    /\ Len(requests) = 2
    /\ ~Failed(responses[1]) /\ responses[1].Results = <<"r2", "r1">>
    /\ Failed(responses[2]) /\ responses[2].response = Ptr([StatusCode |-> 500])
    /\ ret = Return(Nil, TransportError)

(* C6: in ListEngagements, GetOwners and SearchEngagements a request that
   returns an error is the last request of the call, and the call returns that
   error with a nil result. *)
C6_PagingErrorAborts ==
    op \in PagingOps =>
        \A i \in 1..Len(responses) :
            Failed(responses[i]) =>
                /\ i = Len(responses)
                /\ Len(requests) = i
                /\ pc = "done"
                /\ ret = Return(Nil, responses[i].e)

\* ListEngagements failed on its third request after two pages with records
C6_Witness ==
    /\ op = "ListEngagements" /\ pc = "done"
    /\ Len(requests) = 3
    /\ responses[1].Results = <<"r1">> /\ responses[2].Results = <<"r2", "r1">>
    /\ Failed(responses[3])
    /\ ret = Return(Nil, TransportError)

(* C7: SearchEngagements called with an explicit cursor issues exactly one
   request and returns that page; called without one it issues one request per
   page until a response has no next-cursor, and returns all pages in order. *)
C7_SearchLikeList ==
    (op = "SearchEngagements" /\ entry # Nil) =>
        /\ CalledWithCursor =>
              /\ Len(requests) <= 1
              /\ (pc = "done" /\ ~Failed(responses[1])) =>
                    ret = Return(Ptr(responses[1].Results), Nil)
        /\ (CalledWithoutCursor /\ AllSucceeded) =>
              /\ \A i \in 1..Len(responses) :
                    NoNextCursor(responses[i]) => (i = Len(responses) /\ pc = "done")
              /\ pc = "done" => ret = Return(Ptr(ConcatResults(responses)), Nil)

(* C8 as stated: BatchGetAssociations with zero ids returns an empty result
   set and no error, and issues no request. *)
C8_EmptyResultSet ==
    (op = "BatchGetAssociations" /\ Len(InputIds) = 0) =>
        /\ pc = "done"
        /\ requests = <<>>
        /\ ret = Return(Ptr([Results |-> <<>>]), Nil)

(* C8: BatchGetAssociations with zero ids returns a nil result (no result
   set) and no error, and issues no request. *)
C8_NilResult ==
    (op = "BatchGetAssociations" /\ Len(InputIds) = 0) =>
        /\ pc = "done"
        /\ requests = <<>>
        /\ ret = Return(Nil, Nil)

\* BatchGetAssociations has returned from a call with zero ids
C8_Witness ==
    /\ op = "BatchGetAssociations" /\ pc = "done"
    /\ Len(InputIds) = 0
    /\ ret.err = Nil

(* C9: in BatchArchiveEngagements and BatchGetAssociations a chunk answered
   with status 207, with or without a transport error, does not make the call
   return an error, and the remaining chunks are still submitted. *)
C9_ChunkOpsTolerate207 ==
    op \in ChunkOps =>
        \A i \in 1..Len(responses) :
            Is207(responses[i]) =>
                /\ ~(i = Len(responses) /\ pc = "done" /\ ret.err # Nil)
                /\ (i = Len(responses) /\ pc = "done") =>
                      ConcatInputs(requests) = InputIds

(* C10: BatchGetAssociations, BatchCreateEngagements and BatchUpdateEngagements,
   returning without an error after at least one chunk (or, for create and
   update, after none): the result is the concatenation, in submission order,
   of the results of every chunk response, each in the server's order. *)
C10_ResultsInChunkOrder ==
    (pc = "done" /\ ret.err = Nil) =>
        /\ op \in MutationOps => ret.result = Ptr(ConcatResults(responses))
        /\ (op = "BatchGetAssociations" /\ Len(responses) >= 1) =>
              ret.result = Ptr([Results |-> ConcatResults(responses)])

\* 20001 ids were looked up in three chunks whose results came back in order
C10_Witness ==
    /\ op = "BatchGetAssociations" /\ pc = "done" /\ ret.err = Nil
    /\ Len(InputIds) = 20001
    /\ Len(responses) = 3
    /\ responses[1].Results = <<"r2", "r1">>
    /\ responses[2].Results = <<"r1">>
    /\ responses[3].Results = <<"r2", "r1">>
    /\ ret.result = Ptr([Results |-> <<"r2", "r1", "r1", "r2", "r1">>])

(* C11: UpdateEngagement sends a properties map with exactly the keys and
   values of config.Properties, nothing added (no absent property appears, as
   null or as an empty value) and nothing dropped; with a nil config.Properties
   the map sent is empty. *)
C11_UpdateSendsGivenProperties ==
    (op = "UpdateEngagement" /\ Len(requests) = 1) =>
        LET sent == requests[1].properties
            given == Deref(entry).Properties
        IN
        /\ DOMAIN requests[1] = {"properties"}
        /\ IF given = Nil
             THEN DOMAIN sent = {}
             ELSE /\ DOMAIN sent = DOMAIN Deref(given)
                  /\ \A k \in DOMAIN sent : sent[k] = Deref(given)[k]

\* an update that sets k1 to the empty value and leaves k2 out was sent
C11_Witness ==
    /\ op = "UpdateEngagement" /\ pc = "done"
    /\ Deref(entry).Properties # Nil
    /\ DOMAIN Deref(Deref(entry).Properties) = {"k1"}
    /\ Deref(Deref(entry).Properties)["k1"] = ""
    /\ DOMAIN requests[1].properties = {"k1"}
    /\ requests[1].properties["k1"] = ""

\* the after parameter the first request of a list call is to carry
StartCursor ==
    IF entry # Nil /\ Deref(entry).After # Nil /\ Deref(entry).After # Ptr("")
      THEN Deref(entry).After
      ELSE Nil

(* C12: in ListEngagements and GetOwners the first request carries the
   caller's cursor as the after parameter when one was supplied and is not
   empty, and none otherwise; in these and in SearchEngagements every later
   request of the call carries the next-cursor of the response just before it. *)
C12_CursorCarried ==
    (op \in PagingOps /\ Len(requests) >= 1) =>
        /\ op \in ListOps => requests[1].after = StartCursor
        /\ \A i \in 2..Len(requests) :
              /\ responses[i - 1].Paging # Nil
              /\ requests[i].after = Ptr(Deref(responses[i - 1].Paging).Next.After)

(* C13: in ListEngagements, GetOwners and SearchEngagements every successful
   response is appended exactly once and none is discarded: a successful
   return gives the records of all responses of the call, one page per request,
   and no two requests of a call carry the same cursor. *)
C13_EachPageOnce ==
    op \in PagingOps =>
        /\ (pc = "done" /\ ret.err = Nil /\ ~ret.panic) =>
              /\ Len(requests) = Len(responses)
              /\ ret.result = Ptr(ConcatResults(responses))
        /\ \A i, j \in 1..Len(requests) :
              i < j => requests[i].after # requests[j].after

(* C14: no list, search or batch operation modifies the caller's config or
   id sequence: when the call has returned, with a result or an error, the
   config holds what it held when the call was entered. *)
C14_ConfigUnchanged ==
    (op \in PagingOps \cup ChunkOps \cup MutationOps /\ pc = "done") =>
        config = entry

(* C15: ListEngagements and GetOwners accept a nil config: the call does not
   fail before its first request, pages to exhaustion and returns all records. *)
C15_NilConfigAccepted ==
    (op \in ListOps /\ entry = Nil) =>
        /\ ~ret.panic
        /\ pc = "done" => Len(requests) >= 1
        /\ (pc = "done" /\ AllSucceeded) =>
              /\ NoNextCursor(responses[Len(responses)])
              /\ ret = Return(Ptr(ConcatResults(responses)), Nil)

(* C16: every batch operation terminates: BatchArchiveEngagements and
   BatchGetAssociations issue at most ceil(n/max) requests and a batch call
   that has not returned can take its next step; every pagination operation
   returns as soon as a response is an error or has no non-empty next-cursor. *)
C16_Terminates ==
    /\ op \in ChunkOps =>
          Len(requests) <= (Len(InputIds) + ChunkMax - 1) \div ChunkMax
    /\ (op \in ChunkOps \cup MutationOps /\ pc = "loop") => ENABLED Next
    /\ op \in PagingOps =>
          \A i \in 1..Len(responses) :
              (Failed(responses[i]) \/ NoNextCursor(responses[i])) =>
                  (i = Len(responses) /\ pc = "done")

====
